---- MODULE Spec2Model ----
(***************************************************************************)
(* Model of the axum-starter service core: the r2d2/diesel connection pool *)
(* wrapper (services/sqlite.rs, services/postgres.rs: the two files differ *)
(* only in the connection type) and the blocking bridge it uses.           *)
(*                                                                         *)
(* Callers are anonymous: the calls made so far are kept as a bag of call  *)
(* records, so that two states that differ only in which caller is which   *)
(* are one state.                                                          *)
(***************************************************************************)
EXTENDS Integers, Sequences, FiniteSets, Bags, TLC

(* ---------------------------------------------------------------- bounds *)
\* Pool::builder().max_size(32): the model runs a pool of MaxSize slots.
MaxSize == 2
\* Pool::builder().min_idle(Some(8)): the model keeps MinIdle idle connections.
MinIdle == 1
\* Number of calls made on the pool (more than MaxSize, so that it saturates).
NTasks == 3
\* Seconds of waiting one Tick stands for.
TickSecs == 60
\* Number of HTTP requests the server receives.
NReqs == 3
\* BufferLayer::new(1024): the model's buffer has BufferBound slots.
BufferBound == 2
\* RateLimitLayer::new(1024, 1 s): the model's limiter passes RateNum calls per window.
RateNum == 2
\* the model's clock ticks PerTicks times in the 1 s of RateLimitLayer::new(1024, 1 s)
PerTicks == 2
\* Length up to which every string over a few characters is given to from_str.
WordLen == 3
\* max_lifetime(3600 s) and idle_timeout(600 s), in the model's periods: a
\* period is a stretch of time longer than the reaper's 30 s.
LifeTicks == 2
IdleTicks == 1

(* ------------------------------------------------------ program constants *)
\* Pool::builder().connection_timeout(Duration::from_secs(60))
connection_timeout == 60

Kinds == {"get_connection", "execute", "transaction", "health_check"}
\* the methods that go through tokio::task::spawn_blocking
Bridged == {"execute", "transaction", "health_check"}

Min(a, b) == IF a <= b THEN a ELSE b

SeqToSet(s) == {s[i] : i \in 1..Len(s)}

VARIABLES
  conns,     \* connections the pool counts: State::connections is its size
  idle,      \* the idle stack (internals.conns): State::idle_connections is its length
  pending,   \* connection attempts scheduled and not yet established
  stale,     \* idle connections on which the manager's is_valid probe would fail
  calls,     \* bag of call records, one per call made so far
  db_rows,   \* number of rows persisted in the database table
  alive,     \* the process is running
  reqs,      \* bag of request records, one per HTTP request received so far
  rl,        \* the rate limiter: [limited, rem] (tower::limit::RateLimit's State)
  worker,    \* the buffer's worker task is running
  left,      \* ticks until the rate limiter's `until`: 0 when Instant::now() >= until
  recent,    \* recent[i]: number of requests the limiter passed on i - 1 ticks ago
  elapsed,   \* ticks since the server started, counted up to PerTicks
  phase,     \* axum::serve: "Running" (in its accept loop), "Draining" (out of
             \* the loop, waiting for the open connections), "Stopped" (returned)
  sigs,      \* the termination signals delivered to the process so far
  unix,      \* the build is for a unix platform: cfg(unix)
  ret,       \* what ApplicationServer::serve returned: "none", "Ok"
  osenv,     \* the environment variables of the process
  main_pc,   \* where main is: "unstarted", "start", "loaded", "pool",
             \* "exited", "aborted"
  loaded,    \* what load_environment gave, once called: <<result>>
  parsed,    \* the last str::parse::<AppEnv>: <<[input, result]>>
  shown,     \* the last write of an AppEnv by Display: <<[variant, text]>>
  age,       \* per connection: periods since it was opened (now - birth)
  idle_for,  \* per connection: periods since it became idle (now - idle_start)
  swept      \* the reaper has run in the current period

(* ---------------------------------------------------------- configuration *)
\* A string is the sequence of its characters. "U+0130" stands for the letter
\* capital I with dot above and "U+0307" for the combining dot above.
Upper == <<"A", "B", "C", "D", "E", "F", "G", "H", "I", "J", "K", "L", "M",
           "N", "O", "P", "Q", "R", "S", "T", "U", "V", "W", "X", "Y", "Z">>
Lower == <<"a", "b", "c", "d", "e", "f", "g", "h", "i", "j", "k", "l", "m",
           "n", "o", "p", "q", "r", "s", "t", "u", "v", "w", "x", "y", "z">>
Digits == <<"0", "1", "2", "3", "4", "5", "6", "7", "8", "9">>

Ok(v) == [ok |-> TRUE, val |-> v, err |-> <<>>]
Err(m) == [ok |-> FALSE, val |-> <<>>, err |-> m]

\* char::to_lowercase: one character to one or more characters
lower(c) ==
  IF \E i \in 1..26 : Upper[i] = c
  THEN <<Lower[CHOOSE i \in 1..26 : Upper[i] = c]>>
  ELSE IF c = "U+0130" THEN <<"i", "U+0307">> ELSE <<c>>

\* A comparison that leaves the case of its input alone.
as_is(str) == str

\* str::to_lowercase
RECURSIVE to_lowercase(_)
to_lowercase(str) ==
  IF str = <<>> THEN <<>> ELSE lower(Head(str)) \o to_lowercase(Tail(str))

\* the string literals of from_str
local == <<"l", "o", "c", "a", "l">>
development == <<"d", "e", "v", "e", "l", "o", "p", "m", "e", "n", "t">>
dev == <<"d", "e", "v">>
production == <<"p", "r", "o", "d", "u", "c", "t", "i", "o", "n">>
prod == <<"p", "r", "o", "d">>

\* the variants of enum AppEnv
AppEnv == {"Local", "Development", "Production"}

\* A Display that writes short names.
fmt_short(e) ==
  CASE e = "Local" -> <<"l", "o", "c">>
    [] e = "Development" -> dev
    [] e = "Production" -> prod

\* <AppEnv as Display>::fmt
fmt(e) ==
  CASE e = "Local" -> local
    [] e = "Development" -> development
    [] e = "Production" -> production

\* <AppEnv as FromStr>::from_str
from_str(str) ==
  LET l == to_lowercase(str)
  IN  IF l = local THEN Ok("Local")
      ELSE IF l = development \/ l = dev THEN Ok("Development")
      ELSE IF l = production \/ l = prod THEN Ok("Production")
      ELSE Err(<<"Unknown environment: ">> \o str)

\* The largest values of u16 and u64, in decimal digits.
U16_MAX == <<"6", "5", "5", "3", "5">>
U64_MAX == <<"1", "8", "4", "4", "6", "7", "4", "4", "0", "7",
             "3", "7", "0", "9", "5", "5", "1", "6", "1", "5">>

IsDigit(c) == \E i \in 1..10 : Digits[i] = c
DigitVal(c) == (CHOOSE i \in 1..10 : Digits[i] = c) - 1

\* a number, as its decimal digits without leading zeros, is above max
Exceeds(a, max) ==
  \/ Len(a) > Len(max)
  \/ /\ Len(a) = Len(max)
     /\ \E i \in 1..Len(a) :
          /\ DigitVal(a[i]) > DigitVal(max[i])
          /\ \A j \in 1..(i - 1) : a[j] = max[j]

\* acc * 10 + d
MulAdd(acc, d) == IF acc = <<"0">> THEN <<d>> ELSE Append(acc, d)

\* the digit loop of from_str_radix with its checked multiply and add
RECURSIVE accumulate(_, _, _)
accumulate(str, acc, max) ==
  IF str = <<>> THEN Ok(acc)
  ELSE IF ~IsDigit(Head(str)) THEN Err("InvalidDigit")
  ELSE IF Exceeds(MulAdd(acc, Head(str)), max) THEN Err("PosOverflow")
  ELSE accumulate(Tail(str), MulAdd(acc, Head(str)), max)

\* str::parse for an unsigned integer type whose largest value is max
parse_unsigned(str, max) ==
  IF str = <<>> THEN Err("Empty")
  ELSE IF Len(str) = 1 /\ Head(str) \in {"+", "-"} THEN Err("InvalidDigit")
  ELSE IF Head(str) = "+" THEN accumulate(Tail(str), <<"0">>, max)
  ELSE accumulate(str, <<"0">>, max)

\* The value of an environment variable: not set, set to bytes that are not
\* valid Unicode, or set to a string.
Unset == [kind |-> "Unset", str |-> <<>>]
NotUnicode == [kind |-> "NotUnicode", str |-> <<>>]
Str(str) == [kind |-> "Str", str |-> str]

EnvNames == {"APP_ENV", "SECRET", "PORT", "TIMEOUT", "DATABASE_URL"}

\* std::env::var: Err for a variable that is not set or not valid Unicode
var(ev, name) ==
  IF ev[name].kind = "Str" THEN Ok(ev[name].str) ELSE Err(ev[name].kind)

unwrap_or_else(res, default) == IF res.ok THEN res.val ELSE default

\* load_environment: the Environment, or the message of the panic
load_environment(ev) ==
  LET mode == from_str(unwrap_or_else(var(ev, "APP_ENV"), local))
      secret == var(ev, "SECRET")
      port == parse_unsigned(unwrap_or_else(var(ev, "PORT"), <<"3", "0", "0", "0">>), U16_MAX)
      timeout == parse_unsigned(unwrap_or_else(var(ev, "TIMEOUT"), <<"3", "0", "0", "0">>), U64_MAX)
      database_url == var(ev, "DATABASE_URL")
  IN  IF ~mode.ok THEN Err("Invalid APP_ENV value")
      ELSE IF ~secret.ok THEN Err("SECRET must be set")
      ELSE IF ~port.ok THEN Err("PORT must be a valid number")
      ELSE IF ~timeout.ok THEN Err("TIMEOUT must be a valid number")
      ELSE IF ~database_url.ok THEN Err("DATABASE_URL must be set")
      ELSE Ok([mode |-> mode.val, secret |-> secret.val, port |-> port.val,
               database_url |-> database_url.val, timeout |-> timeout.val])

\* the upper-case form of a lower-case ASCII letter
upper(c) == Upper[CHOOSE i \in 1..26 : Lower[i] = c]

\* str is word in some casing
IsCasing(str, word) ==
  /\ Len(str) = Len(word)
  /\ \A i \in 1..Len(word) : str[i] = word[i] \/ str[i] = upper(word[i])

\* every casing of a word
Casings(word) ==
  {[i \in 1..Len(word) |-> IF i \in S THEN upper(word[i]) ELSE word[i]] :
     S \in SUBSET (1..Len(word))}

\* the strings of at most n characters of C
StringsUpTo(C, n) == UNION {[1..k -> C] : k \in 0..n}

\* The strings given to from_str: the five words in every casing, the short
\* strings over a few characters and some near misses.
ParseInputs ==
  Casings(local) \cup Casings(development) \cup Casings(dev)
    \cup Casings(production) \cup Casings(prod)
    \cup StringsUpTo({"d", "E", "v", " ", "U+0130"}, WordLen)
    \cup {<<"p", "r", "o", "d", " ">>,
          <<"l", "o", "c", "a", "l", "e">>,
          <<"s", "t", "a", "g", "i", "n", "g">>,
          <<"P", "R", "O", "D", "U", "C", "T", "U+0130", "O", "N">>}

\* The environments a process is started with.
Envs ==
  [APP_ENV : {Unset, NotUnicode, Str(local), Str(<<"P", "R", "O", "D">>),
              Str(<<"s", "t", "a", "g", "e">>)},
   SECRET : {Unset, NotUnicode, Str(<<"k", "e", "y">>)},
   PORT : {Unset, NotUnicode, Str(<<>>), Str(<<"8", "0", "8", "0">>),
           Str(<<"0", "0", "8", "0">>), Str(<<"+", "8", "0">>),
           Str(<<"-", "1">>), Str(<<" ", "8", "0">>),
           Str(U16_MAX), Str(<<"6", "5", "5", "3", "6">>)},
   TIMEOUT : {Unset, NotUnicode, Str(<<"3", "0">>), Str(<<"3", "s">>),
              Str(U64_MAX), Str(Append(SubSeq(U64_MAX, 1, 19), "6"))},
   DATABASE_URL : {Unset, NotUnicode, Str(<<"a", "p", "p", ".", "d", "b">>)}]

ageVars == <<age, idle_for, swept>>
poolVars == <<conns, idle, pending, stale, calls, db_rows, alive, ageVars>>
clockVars == <<left, recent, elapsed>>
srvVars == <<phase, sigs, unix, ret>>
cfgVars == <<osenv, main_pc, loaded, parsed, shown>>
\* what the untimed steps of the request pipeline leave alone, the pool aside
sideVars == <<clockVars, srvVars, cfgVars>>
httpVars == <<reqs, rl, worker, sideVars>>
vars == <<conns, idle, pending, stale, calls, db_rows, alive, reqs, rl, worker,
          left, recent, elapsed, phase, sigs, unix, ret,
          osenv, main_pc, loaded, parsed, shown, age, idle_for, swept>>

\* A call record:
\*   pc      "get" (about to call pool.get()), "wait" (parked in pool.get()),
\*           "run" (the closure runs on the blocking thread), "hold" (the caller
\*           of get_connection owns the guard), "done" (the call has returned)
\*   kind    the method called
\*   held    the connection the call's guard owns: {} or {c}
\*   waited  seconds spent parked on the pool's condition variable
\*   wrote   the closure's INSERT statement has completed
\*   opres   how the closure ended: "none", "ok", "err", "panic"
\*   result  what the call returned: "none", "Ok", "OpErr", "PoolErr", "Aborted"
\*   abandoned  the future awaiting the call was dropped before the call ended
\*   gotAge, gotIdle  the age and the idle time, at checkout, of the
\*           connection it holds
NewCall(k) ==
  [pc |-> "get", kind |-> k, held |-> {}, waited |-> 0, wrote |-> FALSE,
   opres |-> "none", result |-> "none", abandoned |-> FALSE,
   gotAge |-> 0, gotIdle |-> 0]

Calls == BagToSet(calls)

\* the bag with one copy of record r replaced by record r2
Replace(r, r2) == (calls (-) SetToBag({r})) (+) SetToBag({r2})

(* ------------------------------------------------------------ r2d2 pool *)
\* add_connection without its max_size test: every call schedules an attempt.
add_connections_uncapped(n, numConns, pend) == pend + n

\* add_connection, called n times: each call schedules one attempt unless
\* num_conns + pending_conns >= max_size.
add_connections(n, numConns, pend) ==
  Min(pend + n, IF MaxSize - numConns > pend THEN MaxSize - numConns ELSE pend)

\* A pool that opens no connection when a checkout leaves it short of idle ones.
establish_idle_connections_off(numConns, idleLen, pend) == pend

\* establish_idle_connections: for _ in idle..min_idle { add_connection }
establish_idle_connections(numConns, idleLen, pend) ==
  IF idleLen < MinIdle THEN add_connections(MinIdle - idleLen, numConns, pend) ELSE pend

\* Pool::state(): (connections, idle_connections), as pool_stats returns it.
pool_stats == <<Cardinality(conns), Len(idle)>>

\* number of calls (with multiplicity) whose record is in S
CountCalls(S) == BagCardinality([r \in S \cap Calls |-> CopiesIn(r, calls)])

\* number of connections checked out: guards alive in callers and closures
HeldCount == CountCalls({r \in Calls : r.held # {}})

\* the connections checked out
HeldSet == UNION {r.held : r \in Calls}

\* every call issued so far has returned
AllDone == \A r \in Calls : r.pc = "done"

\* number of closures that panicked
PanicCount == CountCalls({r \in Calls : r.opres = "panic"})

\* Pool::builder()...build(manager): returns once min_idle connections are idle.
InitCore ==
  /\ conns = 1..MinIdle
  /\ idle = [i \in 1..MinIdle |-> i]
  /\ pending = 0
  /\ stale = {}
  /\ calls = EmptyBag
  /\ db_rows = 0
  /\ alive = TRUE
  /\ reqs = EmptyBag
  /\ rl = [limited |-> FALSE, rem |-> RateNum]
  /\ worker = TRUE
  /\ left = 0
  /\ recent = [i \in 1..PerTicks |-> 0]
  /\ elapsed = 0
  /\ phase = "Running"
  /\ sigs = {}
  /\ ret = "none"
  /\ osenv = [n \in EnvNames |-> Unset]
  /\ main_pc = "unstarted"
  /\ loaded = <<>>
  /\ parsed = <<>>
  /\ shown = <<>>
  /\ age = [c \in 1..MaxSize |-> 0]
  /\ idle_for = [c \in 1..MaxSize |-> 0]
  /\ swept = TRUE

\* The service as built for a unix platform.
Init == InitCore /\ unix = TRUE

\* The service as built for any platform.
InitAnyPlatform == InitCore /\ unix \in BOOLEAN

\* A caller invokes one of the four methods: get_connection calls pool.get()
\* itself, the others hand a closure to spawn_blocking.
Call(k) ==
  /\ UNCHANGED httpVars
  /\ UNCHANGED ageVars
  /\ alive
  /\ BagCardinality(calls) < NTasks
  /\ calls' = calls (+) SetToBag({NewCall(k)})
  /\ UNCHANGED <<conns, idle, pending, stale, db_rows, alive>>

\* A pool built with test_on_check_out(false): no probe at checkout.
is_valid_untested(c) == TRUE

\* ManageConnection::is_valid, run by Pool::get because test_on_check_out(true).
is_valid(c) == c \notin stale

\* diesel's ConnectionManager::has_broken, asked by the guard's Drop: the
\* manager reports a connection broken while the thread is unwinding from a
\* panic (diesel 2) or never (diesel 1); otherwise the connection is sound.
has_broken(o) == IF o = "panic" THEN BOOLEAN ELSE {FALSE}

\* A checkout that hands out the top idle connection but leaves it on the stack.
pop_idle_keep == idle

\* internals.conns.pop(): the idle stack without its top
pop_idle == SubSeq(idle, 1, Len(idle) - 1)

\* Pool::get(), one turn of get_timeout's loop: pop an idle connection, refill
\* towards min_idle, probe it; a failed probe drops it (drop_conns) and the loop
\* goes on; with nothing idle, ask for one more connection and wait.
PoolGet(r) ==
  /\ UNCHANGED httpVars
  /\ UNCHANGED ageVars
  /\ r \in Calls
  /\ r.pc \in {"get", "wait"}
  /\ IF idle # <<>>
       THEN LET c == idle[Len(idle)]
                rest == pop_idle
                p1 == establish_idle_connections(Cardinality(conns), Len(rest), pending)
            IN  /\ idle' = rest
                /\ IF is_valid(c)
                     THEN /\ calls' = Replace(r, [r EXCEPT
                                 !.pc = IF r.kind \in Bridged THEN "run" ELSE "hold",
                                 !.held = {c}, !.waited = 0,
                                 !.gotAge = age[c], !.gotIdle = idle_for[c]])
                          /\ pending' = p1
                          /\ UNCHANGED <<conns, stale>>
                     ELSE /\ conns' = conns \ {c}
                          /\ stale' = stale \ {c}
                          /\ pending' = establish_idle_connections(
                                           Cardinality(conns) - 1, Len(rest), p1)
                          /\ UNCHANGED calls
       ELSE /\ pending' = add_connections(1, Cardinality(conns), pending)
            /\ calls' = Replace(r, [r EXCEPT !.pc = "wait"])
            /\ UNCHANGED <<conns, idle, stale>>
  /\ UNCHANGED <<db_rows, alive>>

\* A deadline computed twice as far away as configured.
wait_end_late == 2 * connection_timeout

\* the `end` of get_timeout's wait_until(end), in seconds after the call
wait_end == connection_timeout

\* pool.get() fails at `end`: execute and transaction return the PoolError
\* through `?`, get_connection returns it as is.
PoolGetTimeout(r) ==
  /\ UNCHANGED httpVars
  /\ UNCHANGED ageVars
  /\ r \in Calls
  /\ r.pc = "wait"
  /\ r.waited >= wait_end
  /\ calls' = Replace(r, [r EXCEPT !.pc = "done", !.result = "PoolErr", !.waited = 0])
  /\ UNCHANGED <<conns, idle, pending, stale, db_rows, alive>>

\* Time passes for the callers parked on the condition variable; wait_until(end)
\* returns at `end`, so time does not pass beyond a waiter's end.
Remaining == {wait_end - r.waited : r \in {x \in Calls : x.pc = "wait"}}

Tick ==
  /\ UNCHANGED httpVars
  /\ UNCHANGED ageVars
  /\ Remaining # {}
  /\ \A d \in Remaining : d > 0
  /\ LET step == CHOOSE s \in Remaining \cup {TickSecs} :
                    \A d \in Remaining \cup {TickSecs} : s <= d
         later(r) == IF r.pc = "wait" THEN [r EXCEPT !.waited = r.waited + step] ELSE r
     IN  calls' = [x \in {later(r) : r \in Calls} |->
                     CopiesIn(CHOOSE r \in Calls : later(r) = x, calls)]
  /\ UNCHANGED <<conns, idle, pending, stale, db_rows, alive>>

\* The closure passed to transaction() completes an INSERT on the connection.
\* transaction() calls the closure on the pooled connection directly, as
\* execute() does: no BEGIN precedes it, so the statement is persisted at once.
OpWrite(r) ==
  /\ UNCHANGED httpVars
  /\ UNCHANGED ageVars
  /\ r \in Calls
  /\ r.pc = "run"
  /\ r.kind = "transaction"
  /\ ~r.wrote
  /\ calls' = Replace(r, [r EXCEPT !.wrote = TRUE])
  /\ db_rows' = db_rows + 1
  /\ UNCHANGED <<conns, idle, pending, stale, alive>>

\* A guard whose drop forgets the connection: neither idle nor dropped.
put_back_leak(c, broken) == UNCHANGED <<conns, idle, stale, pending, idle_for>>

\* PooledConnection::drop -> put_back: a broken connection is dropped from the
\* pool (drop_conns), any other is pushed on the idle stack.
put_back(c, broken) ==
  IF broken
    THEN /\ conns' = conns \ {c}
         /\ stale' = stale \ {c}
         /\ pending' = establish_idle_connections(Cardinality(conns) - 1, Len(idle), pending)
         /\ UNCHANGED <<idle, idle_for>>
    ELSE /\ idle' = Append(idle, c)
         /\ idle_for' = [idle_for EXCEPT ![c] = 0]
         /\ UNCHANGED <<conns, stale, pending>>

\* spawn_blocking(..).await?: the closure's Result is returned as is; a panic
\* of the closure is a JoinError, which `?` turns into the returned error.
JoinResult(o) ==
  CASE o = "ok" -> "Ok"
    [] o = "err" -> "OpErr"
    [] o = "panic" -> "Aborted"

\* A panic that is not caught at the task boundary takes the process down.
AliveAfter_abort(o) == o # "panic"

\* A panic inside spawn_blocking is caught by the runtime: the process lives.
AliveAfter(o) == TRUE

\* How a closure may end: the SELECT 1 probe of health_check returns Ok or Err.
Outcomes(k) == IF k = "health_check" THEN {"ok", "err"} ELSE {"ok", "err", "panic"}

\* The closure ends; `conn` goes out of scope (also when unwinding) and the
\* awaited call returns.
Finish(r, o) ==
  /\ UNCHANGED httpVars
  /\ UNCHANGED <<age, swept>>
  /\ r \in Calls
  /\ r.pc = "run"
  /\ o \in Outcomes(r.kind)
  /\ \E c \in r.held : \E b \in has_broken(o) : put_back(c, b)
  /\ calls' = Replace(r, [r EXCEPT !.pc = "done", !.held = {}, !.opres = o,
                                   !.gotAge = 0, !.gotIdle = 0,
                                   !.result = IF r.abandoned THEN "none"
                                                             ELSE JoinResult(o)])
  /\ alive' = (alive /\ AliveAfter(o))
  /\ UNCHANGED db_rows

\* A JoinHandle whose drop cancels the blocking task where it stands.
drop_join_handle_abort(r) ==
  [r EXCEPT !.abandoned = TRUE, !.pc = "done", !.held = {}]

\* Dropping the JoinHandle of spawn_blocking detaches the task: the closure
\* goes on, nobody awaits its result.
drop_join_handle(r) == [r EXCEPT !.abandoned = TRUE]

\* The future of execute (transaction, health_check) is dropped while the
\* blocking task is in flight, as the timeout layer does with a handler's
\* future when the request's time is up.
Abandon(r) ==
  /\ UNCHANGED httpVars
  /\ UNCHANGED ageVars
  /\ r \in Calls
  /\ r.kind \in Bridged
  /\ r.pc \in {"get", "wait", "run"}
  /\ ~r.abandoned
  /\ calls' = Replace(r, drop_join_handle(r))
  /\ UNCHANGED <<conns, idle, pending, stale, db_rows, alive>>

\* The caller of get_connection drops the guard it was given.
DropGuard(r) ==
  /\ UNCHANGED httpVars
  /\ UNCHANGED <<age, swept>>
  /\ r \in Calls
  /\ r.pc = "hold"
  /\ \E c \in r.held : put_back(c, FALSE)
  /\ calls' = Replace(r, [r EXCEPT !.pc = "done", !.held = {}, !.result = "Ok",
                                   !.gotAge = 0, !.gotIdle = 0])
  /\ UNCHANGED <<db_rows, alive>>

\* A scheduled connection attempt succeeds: the connection joins the idle stack.
ConnectOk ==
  /\ UNCHANGED httpVars
  /\ UNCHANGED swept
  /\ pending > 0
  /\ LET free == (1..(Cardinality(conns) + 1)) \ conns
         c == CHOOSE x \in free : \A y \in free : x <= y
     IN  /\ conns' = conns \cup {c}
         /\ idle' = Append(idle, c)
         /\ age' = [age EXCEPT ![c] = 0]
         /\ idle_for' = [idle_for EXCEPT ![c] = 0]
  /\ pending' = pending - 1
  /\ UNCHANGED <<stale, calls, db_rows, alive>>

\* The database end of an idle connection goes away: its next probe fails.
ConnFail(c) ==
  /\ UNCHANGED httpVars
  /\ UNCHANGED ageVars
  /\ c \in SeqToSet(idle) \ stale
  /\ stale' = stale \cup {c}
  /\ UNCHANGED <<conns, idle, pending, calls, db_rows, alive>>

\* The reaper retires an idle connection past idle_timeout or max_lifetime.
Reap(c) ==
  /\ UNCHANGED httpVars
  /\ UNCHANGED ageVars
  /\ c \in SeqToSet(idle)
  /\ idle' = SelectSeq(idle, LAMBDA x : x # c)
  /\ conns' = conns \ {c}
  /\ stale' = stale \ {c}
  /\ pending' = establish_idle_connections(Cardinality(conns) - 1, Len(idle) - 1, pending)
  /\ UNCHANGED <<calls, db_rows, alive>>

\* A reaper that finds no connection to retire.
reap_never(c) == FALSE

\* reap_connections' test of an idle connection:
\* now - idle_start >= idle_timeout || now - birth >= max_lifetime
reap(c) == idle_for[c] >= IdleTicks \/ age[c] >= LifeTicks

\* The reaper thread runs, as it does every 30 s: it takes the idle
\* connections that meet its test off the idle stack and drops them
\* (drop_conns, which refills towards min_idle). Connections checked out are
\* not on the stack.
reap_connections ==
  /\ UNCHANGED httpVars
  /\ LET keep == SelectSeq(idle, LAMBDA c : ~reap(c))
         gone == SeqToSet(idle) \ SeqToSet(keep)
     IN  /\ idle' = keep
         /\ conns' = conns \ gone
         /\ stale' = stale \ gone
         /\ pending' = IF gone = {} THEN pending
                       ELSE establish_idle_connections(Cardinality(conns \ gone),
                                                       Len(keep), pending)
  /\ swept' = TRUE
  /\ UNCHANGED <<age, idle_for, calls, db_rows, alive>>

\* A period goes by; the reaper has run in the period that ends. Ages are
\* counted up to one period past their limits.
Period ==
  /\ UNCHANGED httpVars
  /\ swept
  /\ age' = [c \in 1..MaxSize |->
               IF c \in conns THEN Min(age[c] + 1, LifeTicks + 1) ELSE age[c]]
  /\ idle_for' = [c \in 1..MaxSize |->
               IF c \in SeqToSet(idle) THEN Min(idle_for[c] + 1, IdleTicks + 1)
                                       ELSE idle_for[c]]
  /\ swept' = FALSE
  /\ UNCHANGED <<conns, idle, pending, stale, calls, db_rows, alive>>

(* ------------------------------------------------------ request pipeline *)
\* constants::CORS_WHITELIST
CORS_WHITELIST == {"http://localhost:5000", "http://localhost:8080"}

\* the Origin header values and the methods the model's clients send: an
\* origin of the whitelist and one outside it
Origins == {"http://localhost:8080", "http://evil.example"}
Methods == {"GET", "OPTIONS"}

\* How a request meets the routes AppRoute::register() returns: "handler" (a
\* route has its path and a handler for its method), "path" (a route has its
\* path but no handler for its method), "none" (no route has its path).
Matches == {"handler", "path", "none"}

\* A router that sends to its fallback every request without a handler.
route_of_handlers_only(match) == IF match = "handler" THEN "ready" ELSE "fallback"

\* Router::call: a request whose path matches a route goes to that route's
\* layered method router, any other to the router's fallback.
route_of(match) == IF match = "none" THEN "fallback" ELSE "ready"

\* The method router's answer: the handler's, or 405 from its own fallback
\* when it has no handler for the method.
respond(match) == IF match = "handler" THEN "OK" ELSE "METHOD_NOT_ALLOWED"

\* A layer stack with the limiter outside the buffer.
route_layer_limit_first ==
  <<"Trace", "HandleError", "Timeout", "Cors", "RateLimit", "Buffer">>

\* route_layer: the ServiceBuilder's layers, outermost first
route_layer ==
  <<"Trace", "HandleError", "Timeout", "Cors", "Buffer", "RateLimit">>

\* the request's trail once it has been through layers from..to of route_layer
entered(r, from, to) == r.trail \o SubSeq(route_layer, from, to)

\* A request record:
\*   match    how the request meets the registered routes (see Matches)
\*   stage    "fallback" (no route matches), "ready" (the layered route is polled
\*            for readiness: the request waits for a buffer slot), "queued" (its
\*            message is in the buffer), "handling" (its handler runs), "done"
\*   origin, method   the request's Origin header and method
\*   sawFull  every buffer slot was taken when the request arrived
\*   slot     the request has taken a buffer slot
\*   inq      its message is in the buffer (it holds a slot)
\*   handled  the rate limiter has passed it to its route's method router
\*   err      the error raised beneath the error layer: "none", "Elapsed", "Closed"
\*   resp     the response: "none", "OK", "METHOD_NOT_ALLOWED", "PREFLIGHT",
\*            "NOT_FOUND", "REQUEST_TIMED_OUT", "UNEXPECTED_ERROR_OCCURRED"
\*   acao     the response carries Access-Control-Allow-Origin
\*   trail    the services whose call has taken the request, in order
NewReq(o, m, match, full) ==
  [match |-> match, stage |-> route_of(match), origin |-> o, method |-> m,
   sawFull |-> route_of(match) = "ready" /\ full, slot |-> FALSE, inq |-> FALSE,
   handled |-> FALSE,
   err |-> "none", resp |-> "none", acao |-> FALSE,
   trail |-> IF route_of(match) = "ready" THEN SubSeq(route_layer, 1, 2) ELSE <<>>]

Reqs == BagToSet(reqs)

ReplaceReq(r, r2) == (reqs (-) SetToBag({r})) (+) SetToBag({r2})

\* number of buffer slots taken: messages sent and not yet taken off by the worker
InUse == BagCardinality([r \in {x \in Reqs : x.inq} |-> CopiesIn(r, reqs)])

\* A CORS configuration that allows any origin.
allow_origin_any(o) == TRUE

\* CorsLayer::allow_origin(list): the request's Origin is one of the list
allow_origin(o) == o \in CORS_WHITELIST

\* An error handler without the test for Elapsed.
handle_timeout_error_generic(err) == "UNEXPECTED_ERROR_OCCURRED"

\* ApplicationServer::handle_timeout_error
handle_timeout_error(err) ==
  IF err = "Elapsed" THEN "REQUEST_TIMED_OUT" ELSE "UNEXPECTED_ERROR_OCCURRED"

\* The server accepts a request and routes it: a request that matches a route
\* goes to the layered route, any other to the fallback.
ArriveWithin(n, o, m, match) ==
  /\ phase = "Running"
  /\ BagCardinality(reqs) < n
  /\ reqs' = reqs (+) SetToBag({NewReq(o, m, match, InUse >= BufferBound)})
  /\ UNCHANGED <<rl, worker>>
  /\ UNCHANGED poolVars
  /\ UNCHANGED sideVars

\* The requests of a run are at most NReqs.
Arrive(o, m, match) == ArriveWithin(NReqs, o, m, match)

\* .fallback(Self::handle_404): set after .layer(route_layer), so no layer wraps it.
handle_404(r) ==
  /\ r \in Reqs
  /\ r.stage = "fallback"
  /\ reqs' = ReplaceReq(r, [r EXCEPT !.stage = "done", !.resp = "NOT_FOUND"])
  /\ UNCHANGED <<rl, worker>>
  /\ UNCHANGED poolVars
  /\ UNCHANGED sideVars

\* A buffer without a bound: always ready.
buffer_ready_unbounded == TRUE

\* Buffer::poll_ready has a slot for the request
buffer_ready == InUse < BufferBound

\* The layered route becomes ready (Buffer::poll_ready takes a slot) and is
\* called: Timeout arms its timer, then the CORS layer answers a preflight
\* request itself and passes any other request on to Buffer::call, which puts
\* it in the buffer.
Admit(r) ==
  /\ r \in Reqs
  /\ r.stage = "ready"
  /\ worker
  /\ buffer_ready
  /\ reqs' = ReplaceReq(r,
       IF r.method = "OPTIONS"
         THEN [r EXCEPT !.stage = "done", !.slot = TRUE, !.resp = "PREFLIGHT",
                        !.acao = allow_origin(r.origin),
                        !.trail = entered(r, 3, 4)]
         ELSE [r EXCEPT !.stage = "queued", !.slot = TRUE, !.inq = TRUE,
                        !.trail = entered(r, 3, 5)])
  /\ UNCHANGED <<rl, worker>>
  /\ UNCHANGED poolVars
  /\ UNCHANGED sideVars

\* A limiter that never runs out of budget.
rate_limit_call_unlimited(expired) == [limited |-> FALSE, rem |-> RateNum]

\* RateLimit::call: a new window starts when the last one is over (`expired`);
\* the call that uses up the window's budget puts the limiter to sleep.
rate_limit_call(expired) ==
  LET rem == IF expired THEN RateNum ELSE rl.rem
  IN  IF rem > 1 THEN [limited |-> FALSE, rem |-> rem - 1]
                 ELSE [limited |-> TRUE, rem |-> 0]

\* A limiter that sheds load: a request that finds the budget used up is
\* answered with an error instead of waiting for the next window.
PassOrShed(r, expired) ==
  /\ r \in Reqs
  /\ worker
  /\ r.stage = "queued"
  /\ r.inq
  /\ IF rl.limited
       THEN /\ reqs' = ReplaceReq(r, [r EXCEPT !.stage = "done", !.inq = FALSE,
                                               !.resp = "TOO_MANY_REQUESTS"])
            /\ UNCHANGED rl
       ELSE /\ rl' = rate_limit_call(expired)
            /\ reqs' = ReplaceReq(r, [r EXCEPT !.stage = "handling", !.inq = FALSE,
                                               !.handled = TRUE,
                                               !.trail = Append(entered(r, 6, 6), "route")])
  /\ UNCHANGED worker
  /\ UNCHANGED poolVars

\* The buffer's worker takes a live message, waits for the limiter to be ready
\* and calls the route: the handler's future goes back to the caller. `expired`
\* is RateLimit::call's test now >= until.
Pass(r, expired) ==
  /\ r \in Reqs
  /\ worker
  /\ r.stage = "queued"
  /\ r.inq
  /\ ~rl.limited
  /\ rl' = rate_limit_call(expired)
  /\ reqs' = ReplaceReq(r, [r EXCEPT !.stage = "handling", !.inq = FALSE,
                                     !.handled = TRUE,
                                     !.trail = Append(entered(r, 6, 6), "route")])
  /\ UNCHANGED worker
  /\ UNCHANGED poolVars

\* Pass at any time: the window may or may not be over.
Dispatch(r) ==
  /\ \E expired \in BOOLEAN : Pass(r, expired)
  /\ UNCHANGED sideVars

\* The worker drops the message of a request whose caller is gone.
Skip(r) ==
  /\ r \in Reqs
  /\ worker
  /\ r.stage = "done"
  /\ r.inq
  /\ reqs' = ReplaceReq(r, [r EXCEPT !.inq = FALSE])
  /\ UNCHANGED <<rl, worker>>
  /\ UNCHANGED poolVars
  /\ UNCHANGED sideVars

\* RateLimit::poll_ready when the limiter's sleep is over: a new window.
Wake ==
  /\ rl.limited
  /\ rl' = [limited |-> FALSE, rem |-> RateNum]
  /\ UNCHANGED <<reqs, worker>>
  /\ UNCHANGED poolVars

\* Wake at any time.
WindowPass ==
  /\ Wake
  /\ UNCHANGED sideVars

\* The method router answers; the CORS layer adds Access-Control-Allow-Origin for an
\* allowed origin.
HandlerDone(r) ==
  /\ r \in Reqs
  /\ r.stage = "handling"
  /\ reqs' = ReplaceReq(r, [r EXCEPT !.stage = "done", !.resp = respond(r.match),
                                     !.acao = allow_origin(r.origin)])
  /\ UNCHANGED <<rl, worker>>
  /\ UNCHANGED poolVars
  /\ UNCHANGED sideVars

\* Timeout's timer fires before the response: the error layer answers.
Elapse(r) ==
  /\ r \in Reqs
  /\ r.stage \in {"queued", "handling"}
  /\ reqs' = ReplaceReq(r, [r EXCEPT !.stage = "done", !.err = "Elapsed",
                                     !.resp = handle_timeout_error("Elapsed")])
  /\ UNCHANGED <<rl, worker>>
  /\ UNCHANGED poolVars
  /\ UNCHANGED sideVars

\* The buffer's worker task ends (its runtime shuts down): the messages in the
\* buffer are dropped.
WorkerFail ==
  /\ worker
  /\ worker' = FALSE
  /\ LET drop(r) == [r EXCEPT !.inq = FALSE]
     IN  reqs' = [x \in {drop(r) : r \in Reqs} |->
                    CopiesIn(x, reqs) + (IF x.inq THEN 0 ELSE CopiesIn([x EXCEPT !.inq = TRUE], reqs))]
  /\ UNCHANGED rl
  /\ UNCHANGED poolVars
  /\ UNCHANGED sideVars

\* Buffer reports Closed to a request waiting for a slot or for its response:
\* the error layer answers.
BufferClosed(r) ==
  /\ r \in Reqs
  /\ ~worker
  /\ r.stage \in {"ready", "queued"}
  /\ reqs' = ReplaceReq(r, [r EXCEPT !.stage = "done", !.err = "Closed",
                                     !.resp = handle_timeout_error("Closed")])
  /\ UNCHANGED <<rl, worker>>
  /\ UNCHANGED poolVars
  /\ UNCHANGED sideVars

(* ------------------------------------------------------ graceful shutdown *)
\* A future that waits for both of its branches.
join(c, t) == c /\ t

\* tokio::select! over the two signal futures: done when either is.
select(c, t) == c \/ t

\* shutdown_signal() has completed
shutdown_signal == select("ctrl_c" \in sigs, "terminate" \in sigs)

\* the signals shutdown_signal listens for: `terminate` is pending() forever
\* unless cfg(unix)
Signals == IF unix THEN {"ctrl_c", "terminate"} ELSE {"ctrl_c"}

\* The process is sent a termination signal. The handlers tokio installed stay
\* installed: a further signal changes nothing.
Signal(sg) ==
  /\ sg \in Signals
  /\ sg \notin sigs
  /\ ret = "none"
  /\ sigs' = sigs \cup {sg}
  /\ UNCHANGED <<phase, unix, ret, clockVars, cfgVars>>
  /\ UNCHANGED <<reqs, rl, worker>>
  /\ UNCHANGED poolVars

\* with_graceful_shutdown: the accept loop sees that the signal future is done
\* and breaks; the listener is dropped.
Observe ==
  /\ phase = "Running"
  /\ shutdown_signal
  /\ phase' = "Draining"
  /\ UNCHANGED <<sigs, unix, ret, clockVars, cfgVars>>
  /\ UNCHANGED <<reqs, rl, worker>>
  /\ UNCHANGED poolVars

\* A server that returns without waiting for its connections.
drained_at_once == TRUE

\* every connection task has ended: no request is in flight
drained == \A r \in Reqs : r.stage = "done"

\* axum::serve returns once the connections are closed; serve returns Ok(()).
Stop ==
  /\ phase = "Draining"
  /\ drained
  /\ phase' = "Stopped"
  /\ ret' = "Ok"
  /\ UNCHANGED <<sigs, unix, clockVars, cfgVars>>
  /\ UNCHANGED <<reqs, rl, worker>>
  /\ UNCHANGED poolVars

(* ------------------------------------------------------------------ main *)
\* s.parse::<AppEnv>(), once in a run
FromStr(str) ==
  /\ parsed = <<>>
  /\ parsed' = <<[input |-> str, result |-> from_str(str)]>>
  /\ UNCHANGED <<osenv, main_pc, loaded, shown>>
  /\ UNCHANGED <<clockVars, srvVars>>
  /\ UNCHANGED <<reqs, rl, worker>>
  /\ UNCHANGED poolVars

\* e.to_string(), once in a run
Display(e) ==
  /\ shown = <<>>
  /\ shown' = <<[variant |-> e, text |-> fmt(e)]>>
  /\ UNCHANGED <<osenv, main_pc, loaded, parsed>>
  /\ UNCHANGED <<clockVars, srvVars>>
  /\ UNCHANGED <<reqs, rl, worker>>
  /\ UNCHANGED poolVars

\* e.to_string().parse::<AppEnv>(): the text just written is parsed
ParseShown ==
  /\ shown # <<>>
  /\ FromStr(shown[1].text)

\* The binary is started with an environment.
Launch(ev) ==
  /\ main_pc = "unstarted"
  /\ osenv' = ev
  /\ main_pc' = "start"
  /\ UNCHANGED <<loaded, parsed, shown>>
  /\ UNCHANGED <<clockVars, srvVars>>
  /\ UNCHANGED <<reqs, rl, worker>>
  /\ UNCHANGED poolVars

\* main calls config::load_environment(); a panic there ends the process.
LoadEnvironment ==
  /\ main_pc = "start"
  /\ loaded' = <<load_environment(osenv)>>
  /\ main_pc' = IF load_environment(osenv).ok THEN "loaded" ELSE "aborted"
  /\ UNCHANGED <<osenv, parsed, shown>>
  /\ UNCHANGED <<clockVars, srvVars>>
  /\ UNCHANGED <<reqs, rl, worker>>
  /\ UNCHANGED poolVars

\* main creates the cache and the pool: DBSqlite::new(..).expect(..)
CreatePool(built) ==
  /\ main_pc = "loaded"
  /\ main_pc' = IF built THEN "pool" ELSE "aborted"
  /\ UNCHANGED <<osenv, loaded, parsed, shown>>
  /\ UNCHANGED <<clockVars, srvVars>>
  /\ UNCHANGED <<reqs, rl, worker>>
  /\ UNCHANGED poolVars

\* main builds the AppState, prints and returns.
Exit ==
  /\ main_pc = "pool"
  /\ main_pc' = "exited"
  /\ UNCHANGED <<osenv, loaded, parsed, shown>>
  /\ UNCHANGED <<clockVars, srvVars>>
  /\ UNCHANGED <<reqs, rl, worker>>
  /\ UNCHANGED poolVars

(* ----------------------------------------------- the rate limiter in time *)
\* RateLimit::call's test Instant::now() >= until
window_over == left = 0

\* Pass at the clock's time: a call that finds the window over starts a new
\* one (until = now + per); the limiter counts the call.
TimedDispatch(r) ==
  /\ Pass(r, window_over)
  /\ left' = IF window_over THEN PerTicks ELSE left
  /\ recent' = [recent EXCEPT ![1] = @ + 1]
  /\ UNCHANGED <<elapsed, srvVars, cfgVars>>

\* The limiter's sleep, reset to `until`, is over: poll_ready starts a new
\* window (until = now + per).
TimedWindowPass ==
  /\ Wake
  /\ window_over
  /\ left' = PerTicks
  /\ UNCHANGED <<recent, elapsed, srvVars, cfgVars>>

\* The clock ticks.
Advance ==
  /\ left' = IF left > 0 THEN left - 1 ELSE 0
  /\ recent' = <<0>> \o SubSeq(recent, 1, PerTicks - 1)
  /\ elapsed' = Min(elapsed + 1, PerTicks)
  /\ UNCHANGED <<reqs, rl, worker, srvVars, cfgVars>>
  /\ UNCHANGED poolVars

\* the requests of a burst: three more than the budget of one window
Burst == RateNum + 3

\* A client issues the requests of a burst to a route, all within the first
\* second.
BurstArrive ==
  /\ elapsed < PerTicks
  /\ ArriveWithin(Burst, "http://localhost:5000", "GET", "handler")

RECURSIVE Sum(_)
\* the sum of a sequence of numbers
Sum(s) == IF s = <<>> THEN 0 ELSE Head(s) + Sum(Tail(s))

HttpNext ==
  \/ \E o \in Origins : \E m \in Methods : \E match \in Matches : Arrive(o, m, match)
  \/ \E r \in Reqs : handle_404(r)
  \/ \E r \in Reqs : Admit(r)
  \/ \E r \in Reqs : Dispatch(r)
  \/ \E r \in Reqs : Skip(r)
  \/ WindowPass
  \/ \E r \in Reqs : HandlerDone(r)
  \/ \E r \in Reqs : Elapse(r)
  \/ WorkerFail
  \/ \E r \in Reqs : BufferClosed(r)

SpecHttp == Init /\ [][HttpNext]_vars

(* ------------------------------------------------------- specifications *)
\* The pool under get_connection, execute and transaction calls, with
\* connections failing and being reaped, and waiters timing out.
Next ==
  \/ \E k \in {"get_connection", "execute", "transaction"} : Call(k)
  \/ \E r \in Calls : PoolGet(r)
  \/ \E r \in Calls : PoolGetTimeout(r)
  \/ Tick
  \/ \E r \in Calls : \E o \in {"ok", "err", "panic"} : Finish(r, o)
  \/ \E r \in Calls : DropGuard(r)
  \/ ConnectOk
  \/ \E c \in SeqToSet(idle) : ConnFail(c)
  \/ \E c \in SeqToSet(idle) : Reap(c)

Spec == Init /\ [][Next]_vars

\* All four methods, with closures that write.
OpsNext ==
  \/ \E k \in Kinds : Call(k)
  \/ \E r \in Calls : PoolGet(r)
  \/ \E r \in Calls : PoolGetTimeout(r)
  \/ Tick
  \/ \E r \in Calls : OpWrite(r)
  \/ \E r \in Calls : \E o \in {"ok", "err", "panic"} : Finish(r, o)
  \/ \E r \in Calls : DropGuard(r)
  \/ ConnectOk

SpecOps == Init /\ [][OpsNext]_vars

\* Concurrent execute calls whose closures end well before connection_timeout:
\* no waiter's time runs out. The blocking threads and the pool's connection
\* thread keep running, so each of their steps is taken once it stays possible.
ExecNext ==
  \/ Call("execute")
  \/ \E r \in Calls : PoolGet(r)
  \/ \E r \in Calls : \E o \in {"ok", "err", "panic"} : Finish(r, o)
  \/ ConnectOk

SpecExec ==
  /\ Init
  /\ [][ExecNext]_vars
  /\ WF_vars(\E r \in Calls : PoolGet(r))
  /\ WF_vars(\E r \in Calls : \E o \in {"ok", "err", "panic"} : Finish(r, o))
  /\ WF_vars(ConnectOk)

\* A burst of requests to one route, with the limiter's clock.
RateNext ==
  \/ BurstArrive
  \/ \E r \in Reqs : Admit(r)
  \/ \E r \in Reqs : TimedDispatch(r)
  \/ TimedWindowPass
  \/ \E r \in Reqs : HandlerDone(r)
  \/ \E r \in Reqs : Elapse(r)
  \/ \E r \in Reqs : Skip(r)
  \/ Advance

SpecRate == Init /\ [][RateNext]_vars

\* The server with requests in flight and termination signals, on either
\* platform. The runtime polls every task that can make a step: requests
\* proceed, the limiter wakes up, the accept loop and serve go on.
ShutdownNext ==
  \/ \E m \in Methods : \E match \in {"handler", "none"} :
       Arrive("http://localhost:8080", m, match)
  \/ \E r \in Reqs : handle_404(r)
  \/ \E r \in Reqs : Admit(r)
  \/ \E r \in Reqs : Dispatch(r)
  \/ WindowPass
  \/ \E r \in Reqs : HandlerDone(r)
  \/ \E sg \in {"ctrl_c", "terminate"} : Signal(sg)
  \/ Observe
  \/ Stop

SpecShutdown ==
  /\ InitAnyPlatform
  /\ [][ShutdownNext]_vars
  /\ WF_vars(\E r \in Reqs : handle_404(r))
  /\ WF_vars(\E r \in Reqs : Admit(r))
  /\ WF_vars(\E r \in Reqs : Dispatch(r))
  /\ WF_vars(WindowPass)
  /\ WF_vars(\E r \in Reqs : HandlerDone(r))
  /\ WF_vars(Observe)
  /\ WF_vars(Stop)

\* The binary from its start to its end, over the environments.
EnvNext ==
  \/ \E ev \in Envs : Launch(ev)
  \/ LoadEnvironment
  \/ \E built \in BOOLEAN : CreatePool(built)
  \/ Exit

SpecEnv == Init /\ [][EnvNext]_vars

\* AppEnv's parser applied to strings.
ParseNext == \E str \in ParseInputs : FromStr(str)

SpecParse == Init /\ [][ParseNext]_vars

\* AppEnv written and parsed: the texts Display writes and other strings.
RoundNext ==
  \/ \E e \in AppEnv : Display(e)
  \/ ParseShown
  \/ \E str \in ParseInputs : FromStr(str)

SpecRound == Init /\ [][RoundNext]_vars

\* Health checks alone, on a pool whose connections stay sound.
HealthNext ==
  \/ Call("health_check")
  \/ \E r \in Calls : PoolGet(r)
  \/ \E r \in Calls : \E o \in {"ok", "err"} : Finish(r, o)
  \/ ConnectOk

SpecHealth == Init /\ [][HealthNext]_vars

\* Transactions whose awaiting futures may be dropped. The blocking threads
\* and the pool's connection thread keep running.
CancelNext ==
  \/ Call("transaction")
  \/ \E r \in Calls : PoolGet(r)
  \/ \E r \in Calls : OpWrite(r)
  \/ \E r \in Calls : \E o \in {"ok", "err", "panic"} : Finish(r, o)
  \/ \E r \in Calls : Abandon(r)
  \/ ConnectOk

SpecCancel ==
  /\ Init
  /\ [][CancelNext]_vars
  /\ WF_vars(\E r \in Calls : PoolGet(r))
  /\ WF_vars(\E r \in Calls : \E o \in {"ok", "err", "panic"} : Finish(r, o))
  /\ WF_vars(ConnectOk)

\* execute calls on a pool whose idle connections may go bad; the closures end
\* without a panic, so that only a failed probe takes a connection away.
ProbeNext ==
  \/ Call("execute")
  \/ \E r \in Calls : PoolGet(r)
  \/ \E r \in Calls : PoolGetTimeout(r)
  \/ Tick
  \/ \E r \in Calls : \E o \in {"ok", "err"} : Finish(r, o)
  \/ ConnectOk
  \/ \E c \in SeqToSet(idle) : ConnFail(c)

SpecProbe == Init /\ [][ProbeNext]_vars

\* execute calls on a pool whose connections grow old, with the reaper.
AgeNext ==
  \/ Call("execute")
  \/ \E r \in Calls : PoolGet(r)
  \/ \E r \in Calls : Finish(r, "ok")
  \/ ConnectOk
  \/ Period
  \/ reap_connections

SpecAge == Init /\ [][AgeNext]_vars

(* --------------------------------------------------------------- claims *)
\* C1: in every reachable state of the pool, under any interleaving of calls,
\* idle_count <= total_count <= max_size, and the number of connections
\* checked out at once never exceeds max_size.
C1_PoolWithinMaxSize ==
  /\ pool_stats[2] <= pool_stats[1]
  /\ pool_stats[1] <= MaxSize
  /\ HeldCount <= MaxSize
  /\ HeldCount + pool_stats[2] <= MaxSize

\* C1 witness: the pool is saturated: max_size connections are checked out
\* while another call waits.
C1_Saturated ==
  /\ HeldCount = MaxSize
  /\ pool_stats[1] = MaxSize
  /\ \E r \in Calls : r.pc = "wait"

\* C2 (as stated): whenever the closure given to transaction returns an error,
\* none of its writes is persisted, and the caller receives that error.
C2_ErrLeavesNoWrites ==
  /\ db_rows <= CountCalls({r \in Calls : r.wrote /\ r.opres # "err"})
  /\ \A r \in Calls : r.opres = "err" => r.result = "OpErr"

C4_ExclusiveOwnership ==
  /\ \A r \in Calls : Cardinality(r.held) <= 1
  /\ \A r \in Calls : r.held # {} => CopiesIn(r, calls) = 1
  /\ \A r1, r2 \in Calls : r1 # r2 => r1.held \cap r2.held = {}
  /\ HeldSet \cap SeqToSet(idle) = {}
  /\ \A i, j \in 1..Len(idle) : idle[i] = idle[j] => i = j

\* C4 witness: a get_connection caller and a running closure hold connections
\* at the same time.
C4_TwoHolders ==
  \E r1, r2 \in Calls :
    r1.pc = "hold" /\ r2.pc = "run" /\ r1.held # {} /\ r2.held # {}

\* C5: N concurrent execute calls on a pool of M < N connections, with
\* closures that terminate: every call eventually completes with the result
\* of its closure, and pool_stats().0 never exceeds M.
C5_AllExecutesComplete ==
  /\ [](pool_stats[1] <= MaxSize)
  /\ [](\A r \in Calls : r.pc = "done" => r.result \in {"Ok", "OpErr", "Aborted"})
  /\ \A n \in 1..NTasks :
       (BagCardinality(calls) >= n) ~> (CountCalls({r \in Calls : r.pc = "done"}) >= n)

\* C5 witness: all N calls are issued, M of them run and another waits.
C5_MoreCallsThanConnections ==
  /\ BagCardinality(calls) = NTasks
  /\ NTasks > MaxSize
  /\ CountCalls({r \in Calls : r.pc = "run"}) = MaxSize
  /\ CountCalls({r \in Calls : r.pc = "wait"}) >= 1

\* C6: a checkout that waits on a saturated pool has returned the timeout
\* error by the time connection_timeout has passed since the call: no call
\* waits longer, a call at its deadline can only return the error, and the
\* error comes without a connection; a connection that is handed out is held
\* by nobody else.
C6_CheckoutTimesOut ==
  /\ \A r \in Calls : r.pc = "wait" => r.waited <= connection_timeout
  /\ \A r \in Calls :
       r.pc = "wait" /\ r.waited = connection_timeout => ENABLED PoolGetTimeout(r)
  /\ \A r \in Calls : r.result = "PoolErr" => r.pc = "done" /\ r.held = {}
  /\ HeldCount = Cardinality(HeldSet)

\* C6 witness: a call has returned the timeout error while max_size
\* connections are still checked out.
C6_TimedOutWhileSaturated ==
  /\ \E r \in Calls : r.result = "PoolErr"
  /\ HeldCount = MaxSize

\* C7: a closure that panics inside the blocking task makes the awaited call
\* return the aborted-operation error; the process goes on, new execute and
\* transaction calls are accepted, and the pool can still serve them: a
\* waiting call sees an idle connection or one being opened whenever the pool
\* is below max_size.
C7_PanicBecomesError ==
  /\ alive
  /\ \A r \in Calls :
       r.opres = "panic" => r.pc = "done" /\ r.result = "Aborted" /\ r.held = {}
  /\ \A r \in Calls : r.result = "Aborted" => r.opres = "panic"
  /\ PanicCount > 0 /\ BagCardinality(calls) < NTasks
       => ENABLED Call("execute") /\ ENABLED Call("transaction")
  /\ (\E r \in Calls : r.pc = "wait") /\ Cardinality(conns) < MaxSize
       => pending > 0 \/ idle # <<>>

\* C7 witness: one closure has panicked and its call has returned the error,
\* while another closure runs on a connection of the same pool.
C7_RunsAfterPanic ==
  /\ \E r \in Calls : r.result = "Aborted"
  /\ \E r \in Calls : r.pc = "run" /\ r.kind \in {"execute", "transaction"}
  /\ alive

\* C8: the error layer answers every failure raised beneath it with one of
\* two responses: REQUEST_TIMED_OUT if and only if the failure is the timeout
\* layer's Elapsed, UNEXPECTED_ERROR_OCCURRED for every other failure; a
\* request whose handler outlasts the timeout gets REQUEST_TIMED_OUT.
C8_TwoErrorResponses ==
  /\ \A r \in Reqs :
       r.err # "none" => r.resp \in {"REQUEST_TIMED_OUT", "UNEXPECTED_ERROR_OCCURRED"}
  /\ \A r \in Reqs : r.err = "Elapsed" <=> r.resp = "REQUEST_TIMED_OUT"
  /\ \A r \in Reqs :
       r.err \notin {"none", "Elapsed"} <=> r.resp = "UNEXPECTED_ERROR_OCCURRED"

\* C8 witness: a request whose handler was running when the timer fired got
\* REQUEST_TIMED_OUT, and a request that met a closed buffer got the generic
\* response.
C8_BothResponses ==
  /\ \E r \in Reqs : r.handled /\ r.err = "Elapsed" /\ r.resp = "REQUEST_TIMED_OUT"
  /\ \E r \in Reqs : r.err = "Closed" /\ r.resp = "UNEXPECTED_ERROR_OCCURRED"

\* C9 (as stated): a request whose Origin is not whitelisted never takes a
\* buffer slot, never passes the rate limiter and never reaches a handler.
C9_DisallowedOriginRejected ==
  \A r \in Reqs :
    r.origin \notin CORS_WHITELIST => ~r.slot /\ ~r.handled /\ r.resp # "OK"

\* C9 (amended): the CORS layer rejects no request for its Origin. A request
\* that is not a preflight takes a buffer slot, passes the rate limiter and
\* reaches its handler whatever its Origin; the response carries
\* Access-Control-Allow-Origin if and only if the Origin is whitelisted. An
\* OPTIONS request is answered by the CORS layer and reaches no handler.
C9_OriginOnlySetsHeader ==
  /\ \A r \in Reqs :
       r.resp \in {"OK", "PREFLIGHT"} => (r.acao <=> r.origin \in CORS_WHITELIST)
  /\ \A r \in Reqs : r.acao => r.origin \in CORS_WHITELIST
  /\ \A r \in Reqs : r.resp = "OK" => r.handled /\ r.slot /\ r.method # "OPTIONS"
  /\ \A r \in Reqs : r.method = "OPTIONS" => ~r.handled /\ ~r.inq
  /\ \A r \in Reqs : r.stage = "ready" /\ worker /\ InUse < BufferBound => ENABLED Admit(r)
  /\ \A r \in Reqs : r.stage = "handling" => ENABLED HandlerDone(r)

\* C9 witness: a request from an origin outside the whitelist was handled and
\* answered OK without the header; one from a whitelisted origin was answered
\* OK with it.
C9_ForeignOriginHandled ==
  /\ \E r \in Reqs :
       /\ r.origin \notin CORS_WHITELIST
       /\ r.slot /\ r.handled /\ r.resp = "OK" /\ ~r.acao
  /\ \E r \in Reqs :
       r.origin \in CORS_WHITELIST /\ r.handled /\ r.resp = "OK" /\ r.acao

\* C10 (as stated): a request that arrives while the buffer is full is
\* rejected: it is never put in the buffer.
C10_FullBufferRejects ==
  \A r \in Reqs : r.sawFull => ~r.slot /\ ~r.handled

\* C10 (amended): the buffer of a layered route holds at most its bound of
\* queued requests. A request that arrives while it is full is not rejected:
\* it waits, with no response and outside the request timeout, until a slot
\* is free, and is then queued; it fails only if the buffer is closed or, once
\* queued, if its timeout elapses.
C10_FullBufferDelays ==
  /\ InUse <= BufferBound
  /\ \A r \in Reqs : r.stage = "ready" => r.resp = "none" /\ r.err = "none" /\ ~r.slot
  /\ \A r \in Reqs : r.stage = "ready" => ~ENABLED Elapse(r)
  /\ \A r \in Reqs : r.err = "Elapsed" => r.slot
  /\ \A r \in Reqs : r.err # "none" /\ ~r.slot => r.err = "Closed" /\ ~worker
  /\ \A r \in Reqs : r.stage = "ready" /\ worker /\ InUse < BufferBound => ENABLED Admit(r)

\* C10 witness: a request that arrived at a full buffer was queued later,
\* handled and answered OK.
C10_LateArrivalServed ==
  \E r \in Reqs : r.sawFull /\ r.slot /\ r.handled /\ r.resp = "OK"

\* C11 (as stated): in every interval of 1 s, whatever its start, the limiter
\* passes at most 1024 requests to the route.
C11_RollingWindowBudget == Sum(recent) <= RateNum

\* C11 (amended): the limiter counts in fixed windows of 1 s, each started by
\* the first call or wake-up after the one before is over: it passes at most
\* 1024 requests in a window, so at most 2 * 1024 in an interval of 1 s that
\* spans two windows. A request beyond the budget of the window is not
\* answered: it stays queued until the next window starts.
C11_FixedWindowBudget ==
  /\ left > 0 => Sum(SubSeq(recent, 1, PerTicks - left + 1)) <= RateNum
  /\ Sum(recent) <= 2 * RateNum
  /\ rl.limited => \A r \in Reqs : ~ENABLED TimedDispatch(r)
  /\ rl.limited /\ window_over => ENABLED TimedWindowPass
  /\ \A r \in Reqs : r.stage = "queued" => r.resp = "none" /\ r.err = "none"

\* C11 witness: more requests than one window's budget were passed within
\* one second, while a further request waits for the next window.
C11_TwoWindowsInOneSecond ==
  /\ Sum(recent) > RateNum
  /\ rl.limited
  /\ \E r \in Reqs : r.stage = "queued"

\* C12 (as stated): when more requests than the budget of one second are
\* issued to a route within one second, at least one of them gets a response
\* that is not a success.
C12_OverBudgetFails ==
  BagCardinality(reqs) > RateNum /\ (\A r \in Reqs : r.stage = "done")
    => \E r \in Reqs : r.resp # "OK"

\* C12 (amended): when 1025 requests are issued to a route within one second,
\* the limiter rejects none of them: the request beyond the budget stays in
\* the buffer until the next window starts and is then passed to its handler.
\* The only response that is not a success is REQUEST_TIMED_OUT, for a request
\* whose timeout elapses first.
C12_OverBudgetDelayed ==
  /\ \A r \in Reqs : r.resp \in {"none", "OK", "REQUEST_TIMED_OUT"}
  /\ \A r \in Reqs : r.resp = "REQUEST_TIMED_OUT" <=> r.err = "Elapsed"
  /\ \A r \in Reqs : r.stage = "queued" /\ rl.limited => r.resp = "none" /\ r.inq
  /\ \A r \in Reqs : r.stage = "queued" /\ ~rl.limited => ENABLED TimedDispatch(r)

\* C12 witness: one request more than the budget was issued within one second
\* and every one of them was answered OK.
C12_AllServed ==
  /\ BagCardinality(reqs) = RateNum + 1
  /\ \A r \in Reqs : r.resp = "OK"

\* C13 (as stated): every request that no registered route matches by path
\* and method, and no other request, is answered by handle_404.
C13_UnroutedGetsNotFound ==
  \A r \in Reqs :
    r.resp # "none" /\ r.err = "none" => (r.match # "handler" <=> r.resp = "NOT_FOUND")

\* C13 (amended): every request whose path matches no registered route is
\* answered by handle_404, and no request whose path matches one is. A request
\* whose path matches a route that has no handler for its method is answered
\* by that route, behind the layers: Method Not Allowed, or the CORS layer's
\* preflight response for OPTIONS.
C13_UnmatchedPathGetsNotFound ==
  /\ \A r \in Reqs : r.resp = "NOT_FOUND" <=> r.match = "none" /\ r.stage = "done"
  /\ \A r \in Reqs :
       r.match = "none" => r.stage \in {"fallback", "done"} /\ ~r.slot /\ ~r.handled
  /\ \A r \in Reqs : r.stage = "fallback" => ENABLED handle_404(r)
  /\ \A r \in Reqs : r.resp = "METHOD_NOT_ALLOWED" => r.match = "path" /\ r.handled
  /\ \A r \in Reqs : r.resp = "OK" => r.match = "handler" /\ r.handled

\* C13 witness: a request to an unknown path got Not Found, one to a known
\* path with a method the route does not handle got Method Not Allowed.
C13_NotFoundAndNotAllowed ==
  /\ \E r \in Reqs : r.match = "none" /\ r.resp = "NOT_FOUND"
  /\ \E r \in Reqs : r.match = "path" /\ r.resp = "METHOD_NOT_ALLOWED"

\* C14: the server's state only moves Running -> Draining -> Stopped. It
\* leaves Running only after a termination signal; from then on no connection
\* is accepted; the shutdown steps and the signals touch no request, so that
\* every request accepted goes on as before; Stopped is entered only with no
\* request in flight.
C14_MonotoneDrain ==
  /\ [][phase' # phase =>
          \/ phase = "Running" /\ phase' = "Draining"
          \/ phase = "Draining" /\ phase' = "Stopped"]_vars
  /\ [](phase # "Running" => sigs # {})
  /\ [](phase # "Running" =>
          \A o \in Origins : \A m \in Methods : \A match \in Matches :
            ~ENABLED Arrive(o, m, match))
  /\ [][phase' # phase \/ sigs' # sigs => reqs' = reqs /\ rl' = rl /\ worker' = worker]_vars
  /\ [][BagCardinality(reqs') >= BagCardinality(reqs)]_vars
  /\ [](phase = "Draining" => \A r \in Reqs : r.stage = "handling" => ENABLED HandlerDone(r))
  /\ [](phase = "Stopped" => \A r \in Reqs : r.stage = "done" /\ r.resp # "none")

\* C14 witness: the server drains while a request accepted before the signal
\* is still with its handler.
C14_DrainingWithRequestInFlight ==
  /\ phase = "Draining"
  /\ \E r \in Reqs : r.stage = "handling"

\* C15: once a termination signal has been received, with every request in
\* flight completing, the server reaches Stopped and serve returns Ok.
\* shutdown_signal is done as soon as one of the two signals has fired; without
\* cfg(unix) the terminate signal never fires and the interrupt alone ends it.
C15_SignalLeadsToStopped ==
  /\ (sigs # {}) ~> (phase = "Stopped" /\ ret = "Ok")
  /\ [](shutdown_signal <=> sigs # {})
  /\ []("terminate" \in sigs => unix)
  /\ [](~unix /\ sigs = {} => ENABLED Signal("ctrl_c") /\ ~ENABLED Signal("terminate"))
  /\ [](ret = "Ok" <=> phase = "Stopped")

\* C15 witness: on a platform without the terminate signal, the interrupt
\* alone has stopped a server that had served requests.
C15_StoppedByInterrupt ==
  /\ ~unix
  /\ sigs = {"ctrl_c"}
  /\ phase = "Stopped" /\ ret = "Ok"
  /\ \E r \in Reqs : r.resp = "OK"

\* C16: load_environment returns an Environment only if SECRET and
\* DATABASE_URL are set and each of APP_ENV, PORT and TIMEOUT is either unset
\* (its default is taken) or set to a value that parses; in every other case
\* the process aborts, and the pool is created only after a successful load.
C16_FailFast ==
  \A i \in 1..Len(loaded) :
    /\ loaded[i].ok =>
         /\ osenv["SECRET"].kind # "Unset"
         /\ osenv["DATABASE_URL"].kind # "Unset"
         /\ \/ osenv["APP_ENV"].kind = "Unset"
            \/ osenv["APP_ENV"].kind = "Str" /\ from_str(osenv["APP_ENV"].str).ok
         /\ \/ osenv["PORT"].kind = "Unset"
            \/ osenv["PORT"].kind = "Str" /\ parse_unsigned(osenv["PORT"].str, U16_MAX).ok
         /\ \/ osenv["TIMEOUT"].kind = "Unset"
            \/ osenv["TIMEOUT"].kind = "Str" /\ parse_unsigned(osenv["TIMEOUT"].str, U64_MAX).ok
    /\ ~loaded[i].ok => main_pc = "aborted"
    /\ main_pc \in {"pool", "exited"} => loaded[i].ok

\* C17: from_str is case-insensitive and total: every casing of "local" gives
\* Local, of "development" or "dev" Development, of "production" or "prod"
\* Production, and every other string gives an error value that carries the
\* input as it was given.
C17_ParseIsCaseInsensitive ==
  \A i \in 1..Len(parsed) :
    LET str == parsed[i].input
        res == parsed[i].result
    IN  /\ IsCasing(str, local) => res = Ok("Local")
        /\ IsCasing(str, development) \/ IsCasing(str, dev) => res = Ok("Development")
        /\ IsCasing(str, production) \/ IsCasing(str, prod) => res = Ok("Production")
        /\ ~(\/ IsCasing(str, local)
             \/ IsCasing(str, development) \/ IsCasing(str, dev)
             \/ IsCasing(str, production) \/ IsCasing(str, prod))
           => ~res.ok /\ res.err = <<"Unknown environment: ">> \o str

\* C17 witness: a word in mixed case has been parsed to its mode.
C17_MixedCaseAccepted ==
  /\ Len(parsed) = 1
  /\ parsed[1].input = <<"P", "r", "O", "d">>
  /\ parsed[1].result = Ok("Production")

C19_EveryRequestLayered ==
  LET order == <<"Trace", "HandleError", "Timeout", "Cors", "Buffer", "RateLimit", "route">>
  IN  \A r \in Reqs :
        r.resp # "none" =>
          /\ r.trail # <<>>
          /\ Len(r.trail) <= Len(order)
          /\ r.trail = SubSeq(order, 1, Len(r.trail))

\* C19 (as the code has it): a request whose path matches a route goes through
\* the layers in the fixed order, as far as it gets: it reaches the route
\* exactly when it has been through all six, a preflight request stops at
\* Cors. A request whose path matches no route goes through none of the
\* layers: the fallback was registered after the layers were applied.
C19_LayersOnMatchedRoutes ==
  LET order == <<"Trace", "HandleError", "Timeout", "Cors", "Buffer", "RateLimit", "route">>
  IN  \A r \in Reqs :
        /\ r.match = "none" => r.trail = <<>>
        /\ r.match # "none" =>
             /\ 2 <= Len(r.trail) /\ Len(r.trail) <= Len(order)
             /\ r.trail = SubSeq(order, 1, Len(r.trail))
        /\ r.handled <=> r.trail = order
        /\ r.slot <=> Len(r.trail) >= 4
        /\ r.resp = "PREFLIGHT" => r.trail = SubSeq(order, 1, 4)
        /\ r.resp \in {"OK", "METHOD_NOT_ALLOWED"} => r.trail = order
        /\ r.resp = "NOT_FOUND" => r.trail = <<>>

\* C19 witness: one request has been served through all the layers and one
\* has been answered Not Found outside them.
C19_ServedAndNotFound ==
  /\ \E r \in Reqs : r.resp = "OK" /\ Len(r.trail) = 7
  /\ \E r \in Reqs : r.resp = "NOT_FOUND" /\ r.trail = <<>>

\* C20: dropping the future that awaits a bridged operation does not reach the
\* blocking work. An abandoned operation still checks out its connection, runs
\* on it with the connection checked out (in the pool, not idle) and can end
\* only by its closure ending, whereupon the connection is given up; every
\* abandoned operation does come to that end.
C20_AbandonedWorkCompletes ==
  /\ [](\A r \in Calls : r.abandoned /\ r.pc \in {"get", "wait"} => ENABLED PoolGet(r))
  /\ [](\A r \in Calls : r.abandoned /\ r.pc = "run" =>
          /\ r.held # {} /\ r.held \subseteq conns \ SeqToSet(idle)
          /\ \E o \in Outcomes(r.kind) : ENABLED Finish(r, o))
  /\ [](\A r \in Calls : r.abandoned /\ r.pc = "done" =>
          r.opres # "none" /\ r.held = {} /\ r.result = "none")
  /\ [](\A r \in Calls : r.wrote /\ r.abandoned => db_rows > 0)
  /\ (\E r \in Calls : r.abandoned /\ r.pc # "done")
       ~> (\A r \in Calls : r.abandoned => r.pc = "done" /\ r.opres # "none")

\* C20 witness: an operation abandoned in flight has run to its end and
\* written its row, and its connection is idle again.
C20_AbandonedRanToEnd ==
  /\ \E r \in Calls : r.abandoned /\ r.pc = "done" /\ r.opres = "ok" /\ r.wrote
  /\ HeldCount = 0
  /\ Len(idle) = Cardinality(conns)

\* C21: with test_on_check_out, a connection whose probe fails at checkout is
\* never handed out: it is dropped from the pool without an error to the
\* caller, who goes on to the next idle connection or to the one the pool
\* opens in its place. The caller gets the pool's error only when
\* connection_timeout has passed without a valid connection.
C21_FailedProbeIsReplaced ==
  /\ [](HeldSet \cap stale = {})
  /\ [](stale \subseteq SeqToSet(idle))
  /\ [][Cardinality(conns') < Cardinality(conns) =>
          /\ conns \ conns' \subseteq stale
          /\ calls' = calls
          /\ idle' # <<>> \/ pending' > 0]_vars
  /\ [](Len(idle) + pending >= Min(MinIdle, MaxSize - HeldCount))
  /\ [](\A r \in Calls : r.pc \in {"get", "wait"} => ENABLED PoolGet(r))
  /\ [](\A r \in Calls : ENABLED PoolGetTimeout(r) =>
          r.pc = "wait" /\ r.waited >= connection_timeout /\ r.held = {})
  /\ [](\A r \in Calls : r.result = "PoolErr" => r.pc = "done" /\ r.held = {})

\* C21 witness: failed probes have taken connections out of the pool, a
\* replacement is being opened and the caller is still in its checkout,
\* without an error.
C21_CallerAwaitsReplacement ==
  /\ Cardinality(conns) < MinIdle
  /\ pending > 0
  /\ \E r \in Calls : r.pc \in {"get", "wait"} /\ r.result = "none"

\* C22: no checkout hands out a connection whose age exceeds max_lifetime or
\* whose idle time exceeds idle_timeout.
C22_NoExpiredCheckout ==
  \A r \in Calls : r.gotAge <= LifeTicks /\ r.gotIdle <= IdleTicks

\* C22 (as the code has it): connections are retired by the reaper only,
\* which runs every 30 s and looks at the idle connections; a checkout tests
\* no age. An idle connection is gone by the end of the period in which it
\* meets the reaper's test, so that none is handed out idle for longer than
\* idle_timeout and a reaper interval; a connection that is checked out is
\* never retired, whatever its age, and the pool stays within max_size.
C22_ReaperRetiresIdleOnly ==
  /\ [](\A c \in SeqToSet(idle) : idle_for[c] <= IdleTicks)
  /\ [](swept => \A c \in SeqToSet(idle) : idle_for[c] < IdleTicks)
  /\ [](\A r \in Calls : r.gotIdle <= IdleTicks)
  /\ [][conns \ conns' \subseteq SeqToSet(idle) \ HeldSet]_vars
  /\ [](HeldSet \subseteq conns)
  /\ [](\A r \in Calls : r.pc \in {"get", "wait"} /\ idle # <<>> =>
          ENABLED PoolGet(r))
  /\ [](Cardinality(conns) + pending <= MaxSize)

\* C22 witness: a connection older than max_lifetime has been handed out, and
\* so has one that had been idle for idle_timeout.
C22_OldConnectionHandedOut ==
  /\ \E r \in Calls : r.gotAge > LifeTicks
  /\ \E r \in Calls : r.gotIdle = IdleTicks

\* C23: Display and FromStr round-trip: parsing the text that Display writes
\* for a variant gives that variant again, and the three variants are written
\* as three different texts.
C23_DisplayParsesBack ==
  /\ \A i \in 1..Len(shown) : \A j \in 1..Len(parsed) :
       parsed[j].input = shown[i].text => parsed[j].result = Ok(shown[i].variant)
  /\ \A i \in 1..Len(shown) : \A e \in AppEnv :
       fmt(e) = shown[i].text => e = shown[i].variant
  /\ \A i \in 1..Len(shown) : from_str(shown[i].text).ok

\* C23 witness: Production has been written and its text parsed back.
C23_ProductionRoundTrip ==
  /\ shown = <<[variant |-> "Production", text |-> production]>>
  /\ Len(parsed) = 1
  /\ parsed[1].input = production
  /\ parsed[1].result = Ok("Production")
====
